---- MODULE Spec2Model ----
(***************************************************************************)
(* The students table of lib/sqlalchemy_sandbox.py and the session that    *)
(* the script drives against it: the table's three constraints, SQLite's   *)
(* rowid assignment, the session's commit / rollback, and the queries the  *)
(* script runs (filter, order_by, limit, first, count).                    *)
(*                                                                         *)
(* store      the rows the session's queries see (the open transaction)    *)
(* committed  the rows as of the last session.commit(), with the history   *)
(*            set of the rows removed as of that commit                    *)
(* gone       history: the seq of every row removed in the current view    *)
(* nIns       history: how many rows were ever inserted                    *)
(* out        the outcome of the last operation                            *)
(***************************************************************************)
EXTENDS Integers, Sequences, FiniteSets

VARIABLES store, committed, gone, nIns, out

vars == <<store, committed, gone, nIns, out>>

---------------------------------------------------------------------------
(* Bounds of the model. *)

\* rows inserted over a whole run; a save that fails may hold one object
\* more
MaxInserts == 2
\* entries of one bulk_save_objects call
MaxBatch == 2
\* how far above the lowest grade the increment-all update is followed
MaxIncr == 1

---------------------------------------------------------------------------
(* The table: columns, constraints, rowid. *)

\* CHECK grade BETWEEN 1 AND 12
MinGrade == 1
MaxGrade == 12

\* Python None / SQL NULL in an integer column (grade, or the id attribute
\* of an object that never got one).  It sorts below every integer, as NULL
\* does in SQLite.
NULL == -1

\* Python None / SQL NULL in the email column.
NullEmail == "NULL"

Names == {"Alan Turing", "Albert Einstein"}

\* the position of a name in lexicographic order
NameRank(n) == IF n = "Alan Turing" THEN 1 ELSE 2

\* the address each student of the script uses
EmailOf(n) == IF n = "Alan Turing" THEN "alan.turing@sherborne.edu" ELSE "albert.einstein@zurich.edu"

Emails == {EmailOf(n) : n \in Names}

\* grades a caller may pass: none, the two boundary values, and the two
\* values just outside the range
InputGrades == {NULL, MinGrade - 1, MinGrade, MaxGrade, MaxGrade + 1}

\* the name / email pairs a caller may pass: a student with the student's
\* own address, or without one
People == UNION {{[name |-> n, email |-> e] : e \in {EmailOf(n), NullEmail}} : n \in Names}

\* Student(name=..., email=..., grade=...): the columns are nullable, so
\* email and grade may be left out
Fields == {[name |-> q.name, email |-> q.email, grade |-> g] : q \in People, g \in InputGrades}

\* the entries used in batches of more than one object
BatchFields ==
    {f \in Fields : /\ f.name = "Alan Turing"
                    /\ \/ f.grade = MinGrade
                       \/ f.grade = MaxGrade + 1 /\ f.email = NullEmail}

Ok == "ok"

\* mutant: the range taken as exclusive
GradeCheckExclusive(g) == g = NULL \/ (MinGrade < g /\ g < MaxGrade)

\* CheckConstraint("grade BETWEEN 1 AND 12"): a CHECK whose expression is
\* NULL passes
GradeCheck(g) == g = NULL \/ (MinGrade <= g /\ g <= MaxGrade)

\* mutant: the table declared without the unique constraint
EmailNeverTaken(table, e, self) == FALSE

\* UniqueConstraint("email"): NULLs never conflict; `self` is the id of the
\* row being written (0 for a new row)
EmailTaken(table, e, self) == e # NullEmail /\ \E r \in table : r.id # self /\ r.email = e

\* the constraint a row with these values would violate in `table`, or Ok;
\* SQLite checks CHECK constraints before UNIQUE ones
Violation(table, e, g, self) ==
    IF ~GradeCheck(g) THEN "grade_between_1_and_12"
    ELSE IF EmailTaken(table, e, self) THEN "unique_email"
    ELSE Ok

SetMax(S) == CHOOSE x \in S : \A y \in S : y <= x

\* mutant: the new row takes the largest rowid in use
NextIdNoIncrement(table) == IF table = {} THEN 1 ELSE SetMax({r.id : r \in table})

\* PrimaryKeyConstraint("id") on an INTEGER column is SQLite's rowid: a row
\* inserted without an id gets the largest id in the table plus one
NextId(table) == IF table = {} THEN 1 ELSE SetMax({r.id : r \in table}) + 1

Row(table, f, seq) ==
    [id |-> NextId(table), seq |-> seq, name |-> f.name, email |-> f.email, grade |-> f.grade]

\* INSERT of batch[i..] row by row into `table`: the table after the last
\* row, or the first violation and the index of the entry that caused it
RECURSIVE BulkInsert(_, _, _, _)
BulkInsert(table, batch, i, seq) ==
    IF i > Len(batch) THEN [status |-> Ok, rows |-> table, entry |-> 0]
    ELSE LET v == Violation(table, batch[i].email, batch[i].grade, 0) IN
         IF v # Ok THEN [status |-> v, rows |-> table, entry |-> i]
         ELSE BulkInsert(table \cup {Row(table, batch[i], seq)}, batch, i + 1, seq + 1)

---------------------------------------------------------------------------
(* Queries: pure functions of the rows the session sees. *)

\* filter(Student.name == n, Student.grade == g): each component is empty
\* (no condition) or holds the one value the column must equal
Preds == [name : {{}} \cup {{n} : n \in Names},
          grade : {{}, {MinGrade + 1}}]

AllRows == [name |-> {}, grade |-> {}]

Matches(r, p) ==
    /\ \A n \in p.name : r.name = n
    /\ \A g \in p.grade : r.grade # NULL /\ r.grade = g

Matching(S, p) == {r \in S : Matches(r, p)}

Orders == {"id", "name", "grade"}

Key(r, o) == IF o = "name" THEN NameRank(r.name) ELSE IF o = "grade" THEN r.grade ELSE r.id

\* mutant: DESC reverses the order of rows with equal keys too
BeforeReversedTies(a, b, o, d) ==
    IF Key(a, o) # Key(b, o)
    THEN IF d THEN Key(a, o) > Key(b, o) ELSE Key(a, o) < Key(b, o)
    ELSE IF d THEN a.id > b.id ELSE a.id < b.id

\* ORDER BY o [DESC]: rows with equal keys stay in rowid order
Before(a, b, o, d) ==
    IF Key(a, o) # Key(b, o)
    THEN IF d THEN Key(a, o) > Key(b, o) ELSE Key(a, o) < Key(b, o)
    ELSE a.id < b.id

RECURSIVE Sorted(_, _, _)
Sorted(S, o, d) ==
    IF S = {} THEN <<>>
    ELSE LET h == CHOOSE a \in S : \A b \in S \ {a} : Before(a, b, o, d)
         IN <<h>> \o Sorted(S \ {h}, o, d)

NoLimit == {}

\* session.query(Student).filter(p).order_by(o).limit(l) as a list
Query(S, p, o, d, l) ==
    LET all == Sorted(Matching(S, p), o, d) IN
    IF l = NoLimit THEN all
    ELSE LET n == CHOOSE k \in l : TRUE IN
         SubSeq(all, 1, IF n < Len(all) THEN n ELSE Len(all))

\* what first() returns when no row matches: None
Absent == [absent |-> TRUE]

\* mutant: first() drops the ordering
FirstUnordered(S, p, o, d) ==
    LET m == Matching(S, p) IN
    IF m = {} THEN Absent
    ELSE CHOOSE a \in m : \A b \in m \ {a} : a.id < b.id

\* session.query(Student).filter(p).order_by(o).first()
First(S, p, o, d) ==
    LET m == Matching(S, p) IN
    IF m = {} THEN Absent
    ELSE CHOOSE a \in m : \A b \in m \ {a} : Before(a, b, o, d)

\* mutant: the count taken over the email column
CountEmails(S, p) == Cardinality({r \in Matching(S, p) : r.email # NullEmail})

\* session.query(func.count(Student.id)): COUNT(col) counts the rows whose
\* col is not NULL
Count(S, p) == Cardinality({r \in Matching(S, p) : r.id # NULL})

---------------------------------------------------------------------------
(* The session. *)

Seqs(S) == {r.seq : r \in S}

Snapshot(rows, g) == [rows |-> rows, gone |-> g]

\* op, status: the operation and how it ended (Ok or the exception)
\* params:  the parameter list of the failed INSERT that the exception
\*          carries, one entry per object of the batch (<<>>: no exception)
\* named:   the batch entry the exception singles out (0: none)
\* handle:  the id attribute of the object handed to an insert, afterwards
\* deleted: history, the record a delete removed
Outcome(op, status, params, named, handle, deleted) ==
    [op |-> op, status |-> status, params |-> params, named |-> named,
     handle |-> handle, deleted |-> deleted]

\* session.commit() after a successful operation
Commit(rows, g) ==
    /\ store' = rows
    /\ gone' = g
    /\ committed' = Snapshot(rows, g)

\* a failed statement rolls the session's transaction back: the database
\* holds the rows of the last commit again
Rollback ==
    /\ store' = committed.rows
    /\ gone' = committed.gone
    /\ UNCHANGED committed

Init ==
    /\ store = {}
    /\ committed = Snapshot({}, {})
    /\ gone = {}
    /\ nIns = 0
    /\ out = Outcome("init", Ok, <<>>, 0, NULL, Absent)

\* mutant: the rows inserted before the failing entry are kept
SaveObjectsBestEffort(op, batch) ==
    LET res == BulkInsert(store, batch, 1, nIns + 1) IN
    /\ nIns + Len(batch) <= MaxInserts
    /\ Commit(res.rows, gone)
    /\ nIns' = nIns + Cardinality(res.rows) - Cardinality(store)
    /\ out' = Outcome(op, res.status, IF res.status = Ok THEN <<>> ELSE batch, 0, NULL, Absent)

\* session.bulk_save_objects(batch); session.commit()
SaveObjects(op, batch) ==
    LET res == BulkInsert(store, batch, 1, nIns + 1) IN
    /\ nIns + Len(batch) <= MaxInserts + (IF res.status = Ok THEN 0 ELSE 1)
    /\ IF res.status = Ok
       THEN Commit(res.rows, gone) /\ nIns' = nIns + Len(batch)
       ELSE Rollback /\ UNCHANGED nIns
    \* the exception names the constraint and carries the statement's whole
    \* parameter list; bulk_save_objects leaves the objects' id unset
    /\ out' = Outcome(op, res.status, IF res.status = Ok THEN <<>> ELSE batch, 0, NULL, Absent)

\* insert: one object saved and committed
Insert(f) == SaveObjects("insert", <<f>>)

Batches == UNION {[1..n -> BatchFields] : n \in 2..MaxBatch}

\* insert_many: several objects saved by one call and committed
InsertMany(batch) == SaveObjects("insert_many", batch)

\* mutant: the modified row written without its constraints being checked
WriteRowUnchecked(r, new) ==
    /\ Commit((store \ {r}) \cup {new}, gone)
    /\ out' = Outcome("update", Ok, <<>>, 0, NULL, Absent)
    /\ UNCHANGED nIns

\* the UPDATE of one modified row, then session.commit()
WriteRow(r, new) ==
    LET v == Violation(store, new.email, new.grade, r.id) IN
    /\ IF v = Ok
       THEN Commit((store \ {r}) \cup {new}, gone)
       ELSE Rollback
    /\ out' = Outcome("update", v, <<>>, 0, NULL, Absent)
    /\ UNCHANGED nIns

\* student.email = e; session.commit()
UpdateEmail(r, e) == r \in store /\ WriteRow(r, [r EXCEPT !.email = e])

\* student.grade += 1 on one object
Incremented(r) == [r EXCEPT !.grade = @ + 1]

\* student.grade += 1; session.commit() for one student: None + 1 raises
\* TypeError before anything is written
IncrementGrade(r) ==
    /\ r \in store
    /\ IF r.grade = NULL
       THEN /\ Rollback
            /\ out' = Outcome("update", "TypeError", <<>>, 0, NULL, Absent)
            /\ UNCHANGED nIns
       ELSE /\ GradeCheck(Incremented(r).grade) => r.grade < MinGrade + MaxIncr
            /\ WriteRow(r, Incremented(r))

\* what the increment loop and its commit end with: None + 1 raises
\* TypeError inside the loop; otherwise the commit flushes one UPDATE per
\* row and the first row that breaks the CHECK fails it
IncrementStatus(rows) ==
    IF \E r \in rows : r.grade = NULL THEN "TypeError"
    ELSE IF \E r \in rows : ~GradeCheck(Incremented(r).grade) THEN "grade_between_1_and_12"
    ELSE Ok

\* mutant: the rows that can be incremented are, the others are skipped
IncrementAllPartial ==
    LET st == IncrementStatus(store)
        bump(r) == IF r.grade # NULL /\ GradeCheck(r.grade + 1) THEN Incremented(r) ELSE r
    IN
    /\ \A r \in store : r.grade < MinGrade + MaxIncr \/ r.grade = MaxGrade
    /\ Commit({bump(r) : r \in store}, gone)
    /\ out' = Outcome("increment", st, <<>>, 0, NULL, Absent)
    /\ UNCHANGED nIns

\* for student in session.query(Student): student.grade += 1
\* session.commit()
IncrementAll ==
    LET st == IncrementStatus(store) IN
    /\ st = Ok => \A r \in store : r.grade < MinGrade + MaxIncr
    /\ IF st = Ok
       THEN Commit({Incremented(r) : r \in store}, gone)
       ELSE Rollback
    /\ out' = Outcome("increment", st, <<>>, 0, NULL, Absent)
    /\ UNCHANGED nIns

\* mutant: the object marked deleted but the DELETE never flushed
DeleteUnflushed(r) ==
    /\ r \in store
    /\ Commit(store, gone \cup {r.seq})
    /\ out' = Outcome("delete", Ok, <<>>, 0, NULL, r)
    /\ UNCHANGED nIns

\* session.delete(r); session.commit()
Delete(r) ==
    /\ r \in store
    /\ Commit(store \ {r}, gone \cup {r.seq})
    /\ out' = Outcome("delete", Ok, <<>>, 0, NULL, r)
    /\ UNCHANGED nIns

\* no exception is caught anywhere in the script: the first one ends the run
Running == out.status = Ok

Next ==
    \/ \E f \in Fields : Running /\ Insert(f)
    \/ \E b \in Batches : Running /\ InsertMany(b)
    \/ \E r \in store : \E e \in {EmailOf(r.name), NullEmail} : Running /\ UpdateEmail(r, e)
    \/ \E r \in store : Running /\ IncrementGrade(r)
    \/ Running /\ IncrementAll
    \/ \E r \in store : Running /\ Delete(r)

Spec == Init /\ [][Next]_vars

---------------------------------------------------------------------------
(* Properties. *)

InsertOps == {"insert", "insert_many"}

UpdateOps == {"update", "increment"}

Ids(S) == {r.id : r \in S}

InRange(g) == MinGrade <= g /\ g <= MaxGrade

C2_InsertGradeRange ==
    [][out'.op = "insert" =>
        \A f \in Fields : Insert(f) =>
            /\ (f.grade # NULL /\ ~InRange(f.grade)) =>
                  /\ out'.status = "grade_between_1_and_12"
                  /\ store' = store
                  /\ nIns' = nIns
            /\ (f.grade \in {MinGrade, MaxGrade} /\ \A r \in store : r.email # f.email) =>
                  /\ out'.status = Ok
                  /\ \E r \in store' \ store :
                        /\ store' = store \cup {r}
                        /\ r.name = f.name /\ r.email = f.email /\ r.grade = f.grade
                        /\ r.seq = nIns']_vars

\* an insert was just rejected for its grade while records inserted with
\* both boundary grades are present
C2_Witness ==
    /\ out.op = "insert"
    /\ out.status = "grade_between_1_and_12"
    /\ \E r \in store : r.grade = MinGrade
    /\ \E r \in store : r.grade = MaxGrade

\* C3 as stated: every record present in the store has 1 <= grade <= 12
\* after any sequence of operations; an update that would put a grade
\* outside 1..12 or duplicate another record's email fails with the
\* constraint's violation and leaves the store unchanged.
C3_UpdateRevalidatesOriginal ==
    [][/\ \A r \in store' : InRange(r.grade)
       /\ out'.op = "update" =>
            \A r \in store :
               /\ (IncrementGrade(r) /\ ~InRange(r.grade + 1)) =>
                     out'.status = "grade_between_1_and_12" /\ store' = store
               /\ \A e \in Emails \cup {NullEmail} :
                     (UpdateEmail(r, e) /\ \E s \in store \ {r} : s.email = e) =>
                        out'.status = "unique_email" /\ store' = store]_vars

\* C3 amended: every record present in the store has no grade (NULL) or
\* 1 <= grade <= 12; an update that would put a grade outside 1..12 or give
\* a record the email of another record fails with the constraint's
\* violation and leaves the store unchanged.
C3_UpdateRevalidates ==
    [][/\ \A r \in store' : r.grade = NULL \/ InRange(r.grade)
       /\ out'.op = "update" =>
            \A r \in store :
               /\ (IncrementGrade(r) /\ r.grade # NULL /\ ~InRange(r.grade + 1)) =>
                     out'.status = "grade_between_1_and_12" /\ store' = store
               /\ \A e \in Emails :
                     (UpdateEmail(r, e) /\ \E s \in store \ {r} : s.email = e) =>
                        out'.status = "unique_email" /\ store' = store]_vars

\* an update was just rejected while a record with the highest grade is
\* present
C3_Witness ==
    /\ out.op = "update"
    /\ out.status = "grade_between_1_and_12"
    /\ \E r \in store : r.grade = MaxGrade

\* C4 as stated, for the step after the delete: with r just deleted and p a
\* predicate that matched only r, first(p) stops being absent only by an
\* insert.
C4_AbsentUntilInsertOriginal ==
    [][\A p \in Preds :
          (/\ out.op = "delete"
           /\ Matching(store \cup {out.deleted}, p) = {out.deleted}
           /\ Matching(store', p) # {}) => out'.op \in InsertOps]_vars

\* C4 amended: delete(r) removes r, first(p) for a predicate p that matched
\* only r then returns the absent marker; a predicate that matches nothing
\* matches something again only after a successful insert or a successful
\* update; a deleted record is never in the store, so never returned, again.
C4_DeletedStaysDeleted ==
    [][/\ \A r \in store : Delete(r) =>
            /\ r \notin store'
            /\ \A p \in Preds : Matching(store, p) = {r} =>
                  \A o \in Orders : First(store', p, o, FALSE) = Absent
       /\ gone \subseteq gone'
       /\ Seqs(store') \cap gone' = {}
       /\ store' # store =>
             \A p \in Preds : \A o \in Orders :
                LET q == Query(store', p, o, TRUE, NoLimit) IN
                \A i \in 1..Len(q) : q[i].seq \notin gone'
       /\ \A p \in Preds :
             (Matching(store, p) = {} /\ Matching(store', p) # {}) =>
                out'.op \in InsertOps \cup UpdateOps /\ out'.status = Ok]_vars

\* a record was just deleted, a predicate matched only it, and other records
\* remain
C4_Witness ==
    /\ out.op = "delete"
    /\ store # {}
    /\ \E p \in Preds :
          /\ Matching(store \cup {out.deleted}, p) = {out.deleted}
          /\ First(store, p, "id", FALSE) = Absent

\* C5: count() with no predicate equals the number of records present,
\* which is the number of records inserted minus the number deleted.
C5_CountIsPresent ==
    /\ Count(store, AllRows) = Cardinality(store)
    /\ Count(store, AllRows) = nIns - Cardinality(gone)

\* an insert just failed after a delete, with records present
C5_Witness ==
    /\ out.op \in InsertOps
    /\ out.status # Ok
    /\ gone # {}
    /\ store # {}

\* C6: for a non-empty store, the query ordered by grade descending with
\* limit 1 returns exactly one record; its grade is the highest grade
\* present, and among the records with that grade it is the one inserted
\* first, which has the lowest id.
C6_HighestGradeFirst ==
    store # {} =>
        LET q == Query(store, AllRows, "grade", TRUE, {1}) IN
        /\ Len(q) = 1
        /\ q[1] \in store
        /\ \A r \in store :
              /\ r.grade # NULL => q[1].grade >= r.grade
              /\ r.grade = q[1].grade => q[1].id <= r.id /\ q[1].seq <= r.seq

\* two records share the highest grade
C6_Witness ==
    \E r1 \in store : \E r2 \in store :
        /\ r1 # r2
        /\ r1.grade = r2.grade
        /\ r1.grade # NULL
        /\ \A r \in store : r.grade <= r1.grade

\* what a failed insert_many is checked against: the first entry of the
\* batch that violates a constraint
FirstViolation(batch) == BulkInsert(store, batch, 1, nIns + 1)

\* C7 as stated: when entry k is the first that violates a constraint, the
\* violation reported identifies entry k and no entry after k is inserted.
C7_FailFastOriginal ==
    [][(out'.op = "insert_many" /\ out'.status # Ok) =>
        LET k == FirstViolation(out'.params) IN
        /\ InsertMany(out'.params)
        /\ k.status # Ok
        /\ out'.status = k.status
        /\ out'.named = k.entry
        /\ Cardinality(store') <= Cardinality(store) + k.entry - 1]_vars

\* C7 amended: when entry k is the first that violates a constraint, the
\* operation reports the violated constraint without identifying an entry,
\* and no entry of the batch, after k or before it, is inserted.
C7_BatchRolledBack ==
    [][(out'.op = "insert_many" /\ out'.status # Ok) =>
        LET k == FirstViolation(out'.params) IN
        /\ InsertMany(out'.params)
        /\ k.status # Ok
        /\ out'.status = k.status
        /\ out'.named = 0
        /\ store' = store
        /\ nIns' = nIns]_vars

\* an insert_many just failed at an entry that other entries follow
C7_Witness ==
    /\ out.op = "insert_many"
    /\ out.status # Ok
    /\ FirstViolation(out.params).entry < Len(out.params)

\* C8 as stated: a successful insert stores the record under a non-null id
\* no other present record has, the object handed to the insert carries that
\* id, and no update changes the id of a stored record.
C8_IdAssignedOriginal ==
    [][/\ (out'.op = "insert" /\ out'.status = Ok) =>
            \E r \in store' \ store :
               /\ r.id # NULL
               /\ r.id \notin Ids(store' \ {r})
               /\ out'.handle = r.id
       /\ out'.op \in UpdateOps =>
            {<<r.seq, r.id>> : r \in store'} = {<<r.seq, r.id>> : r \in store}]_vars

\* C8 amended: a successful insert stores the record under a non-null id no
\* other present record has; the object handed to the insert does not carry
\* that id (its id stays unset), the record a query returns does; no update
\* changes the id of a stored record.
C8_IdAssigned ==
    [][/\ (out'.op \in InsertOps /\ out'.status = Ok) =>
            /\ \A r \in store' \ store :
                  /\ r.id # NULL
                  /\ r.id \notin Ids(store' \ {r})
                  /\ \E i \in 1..Cardinality(store') :
                        Query(store', AllRows, "id", FALSE, NoLimit)[i] = r
            /\ store' # store
            /\ out'.handle = NULL
       /\ out'.op \in UpdateOps =>
            {<<r.seq, r.id>> : r \in store'} = {<<r.seq, r.id>> : r \in store}]_vars

\* an insert just succeeded into a store that had lost a record, and took
\* over an id used before
C8_Witness ==
    /\ out.op = "insert"
    /\ out.status = Ok
    /\ gone # {}
    /\ \E r \in store : r.seq = nIns /\ r.id < r.seq

\* C9: for every predicate and ordering, first() returns the single element
\* of the same query with limit 1 when that query is non-empty, and the
\* absent marker when it is empty.
C9_FirstIsLimitOne ==
    \A p \in Preds : \A o \in Orders : \A d \in BOOLEAN :
        LET q == Query(store, p, o, d, {1}) IN
        IF q = <<>>
        THEN First(store, p, o, d) = Absent
        ELSE Len(q) = 1 /\ First(store, p, o, d) = q[1]

\* after a delete, the query of one predicate is empty and that of another
\* is not
C9_Witness ==
    /\ out.op = "delete"
    /\ \E p \in Preds : Matches(out.deleted, p) /\ Query(store, p, "id", FALSE, {1}) = <<>>
    /\ \E p \in Preds : Len(Query(store, p, "grade", TRUE, {1})) = 1

\* C10 as stated: if any present record has grade 12 the commit fails and no
\* grade is changed; otherwise every present record's grade is increased by
\* exactly 1 and nothing else changes.
C10_AllOrNothingOriginal ==
    [][IncrementAll =>
        IF \E r \in store : r.grade = MaxGrade
        THEN out'.status = "grade_between_1_and_12" /\ store' = store
        ELSE out'.status = Ok /\ store' = {Incremented(r) : r \in store}]_vars

\* C10 amended: if any present record has no grade the loop fails with
\* TypeError, otherwise if any has grade 12 the commit fails with the grade
\* constraint's violation, and in both cases no grade is changed; otherwise
\* every present record's grade is increased by exactly 1 and no other field
\* and no record's presence changes.
C10_AllOrNothing ==
    [][IncrementAll =>
        IF \E r \in store : r.grade = NULL
        THEN out'.status = "TypeError" /\ store' = store
        ELSE IF \E r \in store : r.grade = MaxGrade
        THEN out'.status = "grade_between_1_and_12" /\ store' = store
        ELSE /\ out'.status = Ok
             /\ Cardinality(store') = Cardinality(store)
             /\ \A r \in store : \E n \in store' :
                   /\ n.grade = r.grade + 1
                   /\ n.id = r.id /\ n.seq = r.seq /\ n.name = r.name /\ n.email = r.email]_vars

\* the increment-all update just failed on a record with grade 12 while
\* another record could have been incremented
C10_Witness ==
    /\ out.op = "increment"
    /\ out.status = "grade_between_1_and_12"
    /\ \E r \in store : r.grade = MaxGrade
    /\ \E r \in store : r.grade # NULL /\ r.grade < MaxGrade

====
